---------------------------- MODULE Spec2Model ----------------------------
(***************************************************************************)
(* A model of the voice-assistant backend of src/app.py: the conversation  *)
(* history and its rolling window, the /api/chat, /api/speech-to-text and  *)
(* /api/text-to-speech request handlers, the synthesis cache of            *)
(* TTSService and the audio directory pruned by prune_audio.               *)
(*                                                                         *)
(* Strings are sequences of characters (a blank and two letters), so that  *)
(* str.strip() is computed and not assumed.                                *)
(* A python list is a sequence, a python dict (insertion                   *)
(* ordered) is a sequence of [key, path] records, the audio directory is   *)
(* a function from generated file names to modification times.             *)
(***************************************************************************)
EXTENDS Integers, Sequences, FiniteSets, TLC

(***************************************************************************)
(* Bounds of the model.                                                    *)
(***************************************************************************)
MaxAppends == 5     \* calls of append_history in a run of SpecAppend
MaxFiles == 3       \* file names generated in a run
MaxTime == 1        \* ticks of the clock in a run
MaxNow == 2         \* latest time of a call of prune_audio on its own
NThreads == 2       \* requests the server handles at the same time
MaxRequests == 2    \* requests the threads of the server handle in a run

VARIABLES
    CONVERSATION_WINDOW,    \* app.py:33, read from the environment
    MAX_AUDIO_AGE_MINUTES,  \* app.py:35, read from the environment
    provider_configured,    \* app.py:72, set at import time (478-481)
    stt_service,            \* app.py:74, TRUE when the service object exists
    tts_service,            \* app.py:75, TRUE when the service object exists
    cache_limit,            \* TTSService.cache_limit (app.py:193)
    conversation_history,   \* app.py:71
    cache,                  \* TTSService.cache (app.py:192), in dict order
    audio_dir,              \* files of AUDIO_DIR: name -> mtime
    uuid_count,             \* number of file names generated so far
    now,                    \* the clock read by datetime.utcnow()
    last,                   \* the step executed last and what it answered
    appended,               \* the append_history calls made since the last clear
    returned,               \* key -> path last returned by synthesize for it
    inserted,               \* key -> serial of its insertion into the cache
    frames                  \* thread -> where its request stands, its locals

vars == <<CONVERSATION_WINDOW, MAX_AUDIO_AGE_MINUTES, provider_configured,
          stt_service, tts_service, cache_limit, conversation_history, cache,
          audio_dir, uuid_count, now, last, appended, returned, inserted,
          frames>>

config == <<CONVERSATION_WINDOW, MAX_AUDIO_AGE_MINUTES, provider_configured,
            stt_service, tts_service, cache_limit>>

(***************************************************************************)
(* Strings.                                                                *)
(***************************************************************************)
\* what a request can carry as "message", as "text" and as "voice" (a field
\* that is missing reads as the empty string: `payload.get(...) or ""`), and
\* what the provider can return as the text of its reply
Messages == {<<>>, <<" ">>, <<" ", "b", " ">>}
Texts == {<<" ">>, <<"a">>, <<" ", "b">>}
Voices == {<<>>, <<"a">>, <<"b", " ">>}
LlmTexts == {<<"a", " ">>, <<"b">>}

RECURSIVE lstrip(_)
lstrip(s) == IF s # <<>> /\ Head(s) = " " THEN lstrip(Tail(s)) ELSE s

RECURSIVE rstrip(_)
rstrip(s) ==
    IF s # <<>> /\ s[Len(s)] = " " THEN rstrip(SubSeq(s, 1, Len(s) - 1)) ELSE s

\* str.strip()
strip(s) == rstrip(lstrip(s))

(***************************************************************************)
(* Python list slicing.                                                    *)
(***************************************************************************)
Min(a, b) == IF a < b THEN a ELSE b
Max(a, b) == IF a > b THEN a ELSE b

\* the position a slice bound i denotes in a list of length n
SliceIndex(i, n) == IF i < 0 THEN Max(n + i, 0) ELSE Min(i, n)

\* lst[i:]
SliceFrom(lst, i) == SubSeq(lst, SliceIndex(i, Len(lst)) + 1, Len(lst))

\* the list after `del lst[0:j]`
DelPrefix(lst, j) == SubSeq(lst, SliceIndex(j, Len(lst)) + 1, Len(lst))

(***************************************************************************)
(* The conversation history.                                               *)
(***************************************************************************)
Turn(role, content) == [role |-> role, content |-> content]

\* append_history with the cap taken as CONVERSATION_WINDOW entries, the
\* factor 2 (two turns per exchange) forgotten
append_history_single_window(history, role, content) ==
    LET h == Append(history, Turn(role, content))
    IN  IF Len(h) > CONVERSATION_WINDOW
        THEN DelPrefix(h, Len(h) - CONVERSATION_WINDOW)
        ELSE h

\* append_history with a cap of one entry more than CONVERSATION_WINDOW
\* exchanges, an odd number of turns
append_history_odd_cap(history, role, content) ==
    LET h == Append(history, Turn(role, content))
    IN  IF Len(h) > CONVERSATION_WINDOW * 2 + 1
        THEN DelPrefix(h, Len(h) - (CONVERSATION_WINDOW * 2 + 1))
        ELSE h

\* append_history: the list it leaves in place of `history`
append_history(history, role, content) ==
    LET h == Append(history, Turn(role, content))
    IN  IF Len(h) > CONVERSATION_WINDOW * 2
        THEN DelPrefix(h, Len(h) - CONVERSATION_WINDOW * 2)
        ELSE h

\* conversation_history[-(CONVERSATION_WINDOW * 2):]
recent_window(history) == SliceFrom(history, -(CONVERSATION_WINDOW * 2))

\* the content of the system turn of chat_completion, as one token
SystemInstruction == <<"You are a concise, helpful voice assistant.">>

\* chat_completion with the user turn taken to be in the history already
\* (appended before the call), and so sent twice
chat_messages_after_append(history, message) ==
    <<Turn("system", SystemInstruction)>>
        \o recent_window(append_history(history, "user", message))
        \o <<Turn("user", message)>>

\* the list `messages` of chat_completion (app.py:265-271)
chat_messages(history, message) ==
    <<Turn("system", SystemInstruction)>>
        \o recent_window(history)
        \o <<Turn("user", message)>>

(***************************************************************************)
(* The audio directory and the synthesis cache.                            *)
(***************************************************************************)
\* None, where the code holds a Path or None (cache.get(key), audio_url)
NoPath == 0

\* uuid.uuid4().hex: the next unused file name
uuid4 == uuid_count + 1

\* Path.exists()
exists(dir, path) == path \in DOMAIN dir

\* the directory after a file `path` is written at the current time
write_file(dir, path) ==
    [p \in DOMAIN dir \cup {path} |-> IF p = path THEN now ELSE dir[p]]

\* the directory after the files of `paths` are removed
remove_files(dir, paths) == [p \in DOMAIN dir \ paths |-> dir[p]]

\* TTS_VOICE, the default voice of the service ("default" in the source)
TTS_VOICE == <<"a">>

\* dict.pop(key, None)
cache_pop(c, key) == SelectSeq(c, LAMBDA e : e.key # key)

\* the keys of the dict, in a set
cache_keys(c) == {c[i].key : i \in DOMAIN c}

\* dict.get(key): the path stored for key, None if there is none
cache_get(c, key) ==
    IF key \in cache_keys(c)
    THEN LET i == CHOOSE j \in DOMAIN c : c[j].key = key IN c[i].path
    ELSE NoPath

\* dict[key] = path: a new key goes last, a key already there keeps its place
cache_set(c, key, path) ==
    IF key \in cache_keys(c)
    THEN [i \in DOMAIN c |->
            IF c[i].key = key THEN [key |-> key, path |-> path] ELSE c[i]]
    ELSE Append(c, [key |-> key, path |-> path])

\* _evict_cache taking the newest entry, the last of the dict, for the oldest
_evict_cache_newest(c, dir, unlink_ok) ==
    IF Len(c) <= cache_limit
    THEN [cache |-> c, audio_dir |-> dir, evicted |-> <<>>, raised |-> FALSE]
    ELSE LET newest == c[Len(c)]
         IN  [cache |-> SubSeq(c, 1, Len(c) - 1),
              audio_dir |-> IF unlink_ok THEN remove_files(dir, {newest.path})
                            ELSE dir,
              evicted |-> <<newest.key>>,
              raised |-> ~unlink_ok]

\* _evict_cache with the pop after the unlink inside the try, not in a
\* finally: an unlink that raises leaves the entry in the dict
_evict_cache_pop_in_try(c, dir, unlink_ok) ==
    IF Len(c) <= cache_limit
    THEN [cache |-> c, audio_dir |-> dir, evicted |-> <<>>, raised |-> FALSE]
    ELSE LET oldest == c[1]
         IN  [cache |-> IF unlink_ok THEN Tail(c) ELSE c,
              audio_dir |-> IF unlink_ok THEN remove_files(dir, {oldest.path})
                            ELSE dir,
              evicted |-> IF unlink_ok THEN <<oldest.key>> ELSE <<>>,
              raised |-> ~unlink_ok]

\* TTSService._evict_cache on the dict c and the directory dir; unlink_ok
\* tells whether Path.unlink succeeds.  `evicted` lists the key popped.
_evict_cache(c, dir, unlink_ok) ==
    IF Len(c) <= cache_limit
    THEN [cache |-> c, audio_dir |-> dir, evicted |-> <<>>, raised |-> FALSE]
    ELSE LET oldest == c[1]
         IN  [cache |-> Tail(c),
              audio_dir |-> IF unlink_ok THEN remove_files(dir, {oldest.path})
                            ELSE dir,
              evicted |-> <<oldest.key>>,
              raised |-> ~unlink_ok]

\* the test of a hit with the file test left out: an entry is enough
cache_hit_unchecked(cached) == cached # NoPath

\* the test of a hit with the file test negated
cache_hit_negated(cached) == cached # NoPath /\ ~exists(audio_dir, cached)

\* `cached and cached.exists()` (app.py:198): the entry is there and so is
\* its file
cache_hit(cached) == cached # NoPath /\ exists(audio_dir, cached)

\* the failure of the engine with the entry stored before the engine ran
engine_failure_cached(base) ==
    [base EXCEPT !.engine_raised = TRUE, !.raised = TRUE,
                 !.cache = cache_set(cache, base.key, uuid4)]

\* the engine raises (app.py:205-206): synthesize raises RuntimeError with
\* nothing stored; `base` is the call as it stands before the engine runs
engine_failure(base) == [base EXCEPT !.engine_raised = TRUE, !.raised = TRUE]

\* TTSService.synthesize(text, voice); voice <<>> stands for None (and for
\* the empty string, which `voice or self.default_voice` treats alike).
\* engine_ok tells whether save_to_file/runAndWait return without raising.
synthesize(text, voice, engine_ok, unlink_ok) ==
    LET key == <<text, IF voice = <<>> THEN TTS_VOICE ELSE voice>>
        cached == cache_get(cache, key)
        audio_path == uuid4
        base == [called |-> TRUE, key |-> key, hit |-> FALSE,
                 engine_called |-> TRUE, engine_raised |-> FALSE,
                 evicted |-> <<>>, unlink_raised |-> FALSE, raised |-> FALSE,
                 path |-> NoPath, cache |-> cache, audio_dir |-> audio_dir,
                 uuid_count |-> uuid_count + 1]
    IN  IF cache_hit(cached)
        THEN [base EXCEPT !.hit = TRUE, !.engine_called = FALSE,
                          !.path = cached, !.uuid_count = uuid_count]
        ELSE IF ~engine_ok
        THEN engine_failure(base)
        ELSE LET e == _evict_cache(cache_set(cache, key, audio_path),
                                   write_file(audio_dir, audio_path),
                                   unlink_ok)
             IN  [base EXCEPT !.evicted = e.evicted,
                              !.unlink_raised = e.raised,
                              !.raised = e.raised,
                              !.path = IF e.raised THEN NoPath ELSE audio_path,
                              !.cache = e.cache,
                              !.audio_dir = e.audio_dir]

\* prune_audio with the try around the loop, not inside it: the scan (taken
\* in the order of the names) stops at the first file that fails
prune_audio_abort(dir, utcnow, max_age_minutes, failing) ==
    LET cutoff == utcnow - max_age_minutes
    IN  remove_files(dir, {p \in DOMAIN dir :
                             /\ dir[p] < cutoff
                             /\ \A f \in failing : p < f})

\* prune_audio with the comparison made inclusive: a file as old as the
\* cutoff goes too
prune_audio_inclusive(dir, utcnow, max_age_minutes, failing) ==
    LET cutoff == utcnow - max_age_minutes
    IN  remove_files(dir, {p \in DOMAIN dir : dir[p] <= cutoff /\ p \notin failing})

\* prune_audio: the directory it leaves; utcnow is the clock as the call
\* reads it, `failing` are the files whose stat or unlink raises (the
\* exception is caught and the file skipped)
prune_audio(dir, utcnow, max_age_minutes, failing) ==
    LET cutoff == utcnow - max_age_minutes
    IN  remove_files(dir, {p \in DOMAIN dir : dir[p] < cutoff /\ p \notin failing})

\* prune_audio() moved out of the try block, into a finally: it runs
\* whether the call before it raised or not
prune_reached_always(raised) == TRUE

\* prune_audio() is the last statement of the try block of
\* speech_to_text_route and text_to_speech_route (app.py:409-410, 444-445):
\* it is reached when the call before it did not raise
prune_reached(raised) == ~raised

(***************************************************************************)
(* What a step leaves in `last`: the operation, the message of a chat      *)
(* request as the handler reads it, the list of messages built for the     *)
(* provider, the status and the fields of the                              *)
(* response, how the call of the provider and the try block of a           *)
(* transcription ended ("none" when there was none), whether prune_audio   *)
(* ran, the files it failed on and those it removed, and what the call of  *)
(* synthesize did.                                                         *)
(***************************************************************************)
\* jsonify's null for audio_url
NoUrl == <<>>

\* f"/static/audio/{audio_path.name}"
static_url(path) == <<"/static/audio/", path>>

NoSynth ==
    [called |-> FALSE, key |-> <<>>, hit |-> FALSE, engine_called |-> FALSE,
     engine_raised |-> FALSE, evicted |-> <<>>, unlink_raised |-> FALSE,
     raised |-> FALSE, path |-> NoPath, on_disk |-> FALSE]

\* the fields of a synthesize result that describe the call; on_disk tells
\* whether the path returned names a file at the moment the call returns
synth_outcome(r) ==
    [called |-> TRUE, key |-> r.key, hit |-> r.hit,
     engine_called |-> r.engine_called, engine_raised |-> r.engine_raised,
     evicted |-> r.evicted, unlink_raised |-> r.unlink_raised,
     raised |-> r.raised, path |-> r.path,
     on_disk |-> exists(r.audio_dir, r.path)]

Step(op, status) ==
    [op |-> op, message |-> <<>>, messages |-> <<>>, status |-> status,
     error |-> "",
     reply |-> <<>>, audio_url |-> NoUrl, history |-> <<>>,
     transcript |-> <<>>, marker |-> "", llm |-> "none", stt |-> "none",
     pruned |-> FALSE, failing |-> {}, removed |-> {}, synth |-> NoSynth]

\* the keys synthesize can be called with
Keys ==
    {<<strip(t), v>> : t \in Texts \cup LlmTexts,
                       v \in ({strip(x) : x \in Voices} \ {<<>>}) \cup {TTS_VOICE}}

\* the bookkeeping of the calls of synthesize: the path a key's last call
\* returned and the serial of the key's insertion, both forgotten on eviction
note_synth(r) ==
    /\ returned' =
          [k \in Keys |->
              IF <<k>> = r.evicted THEN NoPath
              ELSE IF k = r.key /\ ~r.raised THEN r.path
              ELSE returned[k]]
    /\ inserted' =
          [k \in Keys |->
              IF <<k>> = r.evicted THEN 0
              ELSE IF k = r.key /\ r.engine_called /\ ~r.engine_raised
                      /\ k \notin cache_keys(cache)
                   THEN r.uuid_count
              ELSE inserted[k]]

(***************************************************************************)
(* The threads of the server (app.run serves each request in a thread of   *)
(* its own, app.py:497-498).  A frame holds the place a request has        *)
(* reached in its handler and the locals of the handler; a thread that     *)
(* handles no request is idle.  Where requests run one after another the   *)
(* handlers are taken in one step and every frame stays idle.  `started`   *)
(* counts the requests the thread has begun and `crossed` notes that the   *)
(* history was reset while the thread's request was under way.             *)
(***************************************************************************)
Threads == 1..NThreads

IdleFrame ==
    [pc |-> "idle", started |-> 0, crossed |-> FALSE, message |-> <<>>,
     messages |-> <<>>, reply |-> <<>>, role |-> "", bound |-> 0,
     key |-> <<>>, cached |-> NoPath, audio_path |-> NoPath,
     oldest_key |-> <<>>, raising |-> FALSE]

(***************************************************************************)
(* The state after the module is imported (app.py:71-76, 477-494).         *)
(***************************************************************************)

InitState ==
    /\ conversation_history = <<>>
    /\ cache = <<>>
    /\ audio_dir = <<>>
    /\ uuid_count = 0
    /\ now = 0
    /\ last = Step("import", 0)
    /\ appended = <<>>
    /\ returned = [k \in Keys |-> NoPath]
    /\ inserted = [k \in Keys |-> 0]
    /\ frames = [t \in Threads |-> IdleFrame]

(***************************************************************************)
(* append_history called on its own, with any role and content.            *)
(***************************************************************************)
Roles == {"user", "assistant"}
Contents == {<<>>, <<"a">>}

AppendHistoryCall(role, content) ==
    /\ Len(appended) < MaxAppends
    /\ conversation_history' = append_history(conversation_history, role, content)
    /\ appended' = Append(appended, Turn(role, content))
    /\ last' = [Step("append_history", 0) EXCEPT
                   !.history = recent_window(conversation_history')]
    /\ UNCHANGED <<frames, config, cache, audio_dir, uuid_count, now, returned, inserted>>

\* only CONVERSATION_WINDOW is read by append_history; the services are
\* left unconfigured
InitAppend ==
    /\ CONVERSATION_WINDOW \in {-1, 0, 1, 2}
    /\ MAX_AUDIO_AGE_MINUTES = 0
    /\ provider_configured = FALSE
    /\ stt_service = FALSE
    /\ tts_service = FALSE
    /\ cache_limit = 1
    /\ InitState

NextAppend ==
    \E role \in Roles, content \in Contents : AppendHistoryCall(role, content)

SpecAppend == InitAppend /\ [][NextAppend]_vars

(***************************************************************************)
(* C1.  After every call of append_history (CONVERSATION_WINDOW >= 1) the  *)
(* history holds at most 2 * CONVERSATION_WINDOW entries, and it is, as is *)
(* the window a read returns, the last min(N, 2 * CONVERSATION_WINDOW) of  *)
(* the N turns appended, in the order they were appended.                  *)
(***************************************************************************)
LastN(s, n) == [i \in 1..n |-> s[Len(s) - n + i]]

C1_HistoryIsLastAppends ==
    CONVERSATION_WINDOW >= 1 =>
        LET kept == LastN(appended, Min(Len(appended), 2 * CONVERSATION_WINDOW))
        IN  /\ Len(conversation_history) <= 2 * CONVERSATION_WINDOW
            /\ conversation_history = kept
            /\ recent_window(conversation_history) = kept

\* more turns were appended than the window holds: the oldest were dropped
C1_Witness ==
    /\ CONVERSATION_WINDOW >= 1
    /\ last.op = "append_history"
    /\ Len(appended) > 2 * CONVERSATION_WINDOW + 1
    /\ appended[1] # appended[Len(appended)]

(***************************************************************************)
(* The request handlers, each run from its first line to its response.     *)
(***************************************************************************)
\* the variables a handler that returns early leaves alone
audio_state == <<cache, audio_dir, uuid_count, returned, inserted>>

\* time passes between requests
Tick ==
    /\ now < MaxTime
    /\ now' = now + 1
    /\ last' = Step("tick", 0)
    /\ UNCHANGED <<frames, config, conversation_history, audio_state, appended>>

\* GET /api/conversation
get_conversation ==
    /\ last' = [Step("get_conversation", 200) EXCEPT
                   !.history = recent_window(conversation_history)]
    /\ UNCHANGED <<frames, config, conversation_history, audio_state, now, appended>>

\* reset_conversation binding a new empty list to a name of its own
\* (conversation_history = [] without `global`): the shared list stays
reset_conversation_rebind ==
    /\ appended' = <<>>
    /\ frames' = [t \in Threads |->
                     IF frames[t].pc = "idle" THEN frames[t]
                     ELSE [frames[t] EXCEPT !.crossed = TRUE]]
    /\ last' = [Step("reset_conversation", 200) EXCEPT !.marker = "reset"]
    /\ UNCHANGED <<config, conversation_history, audio_state, now>>

\* POST /api/conversation/reset
reset_conversation ==
    /\ conversation_history' = <<>>
    /\ appended' = <<>>
    /\ frames' = [t \in Threads |->
                     IF frames[t].pc = "idle" THEN frames[t]
                     ELSE [frames[t] EXCEPT !.crossed = TRUE]]
    /\ last' = [Step("reset_conversation", 200) EXCEPT !.marker = "reset"]
    /\ UNCHANGED <<config, audio_state, now>>

\* the checks of chat taken in the other order: the message first
chat_validate_message_first(message) ==
    IF message = <<>> THEN 400
    ELSE IF ~provider_configured THEN 503
    ELSE 200

\* the checks that open chat (app.py:348-356): the status of the early
\* return, 200 when the request goes on
chat_validate(message) ==
    IF ~provider_configured THEN 503
    ELSE IF message = <<>> THEN 400
    ELSE 200

\* the try block of chat with the two appends in the other order
chat_try_assistant_first(history, message, llm_ok, reply) ==
    IF llm_ok
    THEN append_history(append_history(history, "assistant", reply),
                        "user", message)
    ELSE history

\* the try block of chat with the user turn appended before the completion
chat_try_user_first(history, message, llm_ok, reply) ==
    IF llm_ok
    THEN append_history(append_history(history, "user", message),
                        "assistant", reply)
    ELSE append_history(history, "user", message)

\* the try block of chat (app.py:358-364): the history it leaves; llm_ok
\* tells whether chat_completion returns, reply is what it returns
chat_try(history, message, llm_ok, reply) ==
    IF llm_ok
    THEN append_history(append_history(history, "user", message),
                        "assistant", reply)
    ELSE history

\* the audio step of chat skipped when synthesize raises is instead let
\* through: the exception reaches the error handler
chat_status_synth_fatal(synth_raised) == IF synth_raised THEN 500 ELSE 200

\* the status of a chat whose completion succeeded (app.py:366-375): an
\* exception of synthesize is caught and logged
chat_status(synth_raised) == 200

\* POST /api/chat
chat(payload_message, payload_audio, llm_ok, llm_text, engine_ok, unlink_ok) ==
    LET message == strip(payload_message)
        wants_audio == payload_audio
        early == chat_validate(message)
        reply == strip(llm_text)
        rejected == [Step("chat", early) EXCEPT !.message = message]
        base == [rejected EXCEPT
                   !.messages = chat_messages(conversation_history, message)]
    IN  IF early # 200
        THEN /\ last' = [rejected EXCEPT
                           !.error = IF early = 503
                                     THEN "provider not configured"
                                     ELSE "Message is required"]
             /\ UNCHANGED <<frames, config, conversation_history, audio_state, now,
                            appended>>
        ELSE IF ~llm_ok
        THEN /\ conversation_history' =
                   chat_try(conversation_history, message, FALSE, reply)
             /\ last' = [base EXCEPT !.status = 500, !.llm = "failed",
                                     !.error = "request failed"]
             /\ UNCHANGED <<frames, config, audio_state, now, appended>>
        ELSE IF ~(wants_audio /\ tts_service)
        THEN /\ conversation_history' =
                   chat_try(conversation_history, message, TRUE, reply)
             /\ last' = [base EXCEPT
                           !.llm = "ok", !.reply = reply,
                           !.history = recent_window(conversation_history')]
             /\ UNCHANGED <<frames, config, audio_state, now, appended>>
        ELSE LET r == synthesize(reply, <<>>, engine_ok, unlink_ok)
             IN  /\ r.uuid_count <= MaxFiles
                 /\ conversation_history' =
                       chat_try(conversation_history, message, TRUE, reply)
                 /\ cache' = r.cache
                 /\ audio_dir' = r.audio_dir
                 /\ uuid_count' = r.uuid_count
                 /\ note_synth(r)
                 /\ last' = [base EXCEPT
                               !.status = chat_status(r.raised),
                               !.llm = "ok", !.reply = reply,
                               !.audio_url = IF r.raised THEN NoUrl
                                             ELSE static_url(r.path),
                               !.history = recent_window(conversation_history'),
                               !.synth = synth_outcome(r)]
                 /\ UNCHANGED <<frames, config, now, appended>>

\* POST /api/text-to-speech; `elapsed` is the time that passes between the
\* write of the file by the engine and the call of prune_audio
text_to_speech_route(payload_text, payload_voice, engine_ok, unlink_ok, elapsed, failing) ==
    LET text == strip(payload_text)
        voice == strip(payload_voice)
        base == Step("text_to_speech", 200)
    IN  IF ~tts_service
        THEN /\ last' = [base EXCEPT !.status = 503,
                                     !.error = "TTS not configured"]
             /\ UNCHANGED <<frames, config, conversation_history, audio_state, now,
                            appended>>
        ELSE IF text = <<>>
        THEN /\ last' = [base EXCEPT !.status = 400,
                                     !.error = "Text is required"]
             /\ UNCHANGED <<frames, config, conversation_history, audio_state, now,
                            appended>>
        ELSE LET r == synthesize(text, voice, engine_ok, unlink_ok)
             IN  /\ r.uuid_count <= MaxFiles
                 /\ cache' = r.cache
                 /\ uuid_count' = r.uuid_count
                 /\ note_synth(r)
                 /\ IF ~prune_reached(r.raised)
                    THEN /\ audio_dir' = r.audio_dir
                         /\ now' = now
                         /\ last' = [base EXCEPT !.status = 500,
                                                 !.error = "synthesis failed",
                                                 !.synth = synth_outcome(r)]
                    ELSE /\ now + elapsed <= MaxTime
                         /\ now' = now + elapsed
                         /\ audio_dir' =
                              prune_audio(r.audio_dir, now + elapsed,
                                          MAX_AUDIO_AGE_MINUTES, failing)
                         /\ last' = [base EXCEPT
                                       !.audio_url = static_url(r.path),
                                       !.pruned = TRUE, !.failing = failing,
                                       !.removed = DOMAIN r.audio_dir
                                                     \ DOMAIN audio_dir',
                                       !.synth = synth_outcome(r)]
                 /\ UNCHANGED <<frames, config, conversation_history, appended>>

\* what the try block of speech_to_text_route can meet (app.py:393-410):
\* the save of the upload fails, ffmpeg is not installed (ffmpeg_bin is
\* None), ffmpeg fails, the file cannot be read, the recognizer finds no
\* speech, the recognition service fails, or a transcript comes back
SttOutcomes ==
    {"save_error", "no_ffmpeg", "convert_failed", "read_error", "no_speech",
     "request_error", "ok"}

\* str(exc) of the exception the try block ends with, "" when it ends well;
\* a .wav upload is not converted (_convert_to_wav returns at once)
stt_error(suffix_wav, outcome) ==
    IF outcome = "save_error" THEN "save failed"
    ELSE IF ~suffix_wav /\ outcome = "no_ffmpeg"
    THEN "ffmpeg is required for audio conversion but could not be found"
    ELSE IF ~suffix_wav /\ outcome = "convert_failed"
    THEN "Failed to convert audio; file may be corrupted or unsupported"
    ELSE IF outcome = "read_error" THEN "audio file could not be read"
    ELSE IF outcome = "no_speech" THEN "Could not understand audio"
    ELSE IF outcome = "request_error" THEN "Speech recognition service error"
    ELSE ""

\* the files the try block writes: the upload (save_audio_file), then the
\* converted copy when ffmpeg ran to its end (_convert_to_wav)
stt_files(suffix_wav, outcome) ==
    IF outcome = "save_error" THEN {}
    ELSE IF suffix_wav \/ outcome \in {"no_ffmpeg", "convert_failed"}
    THEN {uuid4}
    ELSE {uuid4, uuid4 + 1}

\* the directory once the try block has written its files
stt_dir(suffix_wav, outcome) ==
    LET written == stt_files(suffix_wav, outcome)
    IN  [p \in DOMAIN audio_dir \cup written |->
            IF p \in written THEN now ELSE audio_dir[p]]

\* the except branch of speech_to_text_route with the test of the message
\* left out: every exception is an error
stt_except_status_no_marker(msg) == 500

\* the except branch of speech_to_text_route (app.py:411-427): the status
\* it answers for the message msg of the exception
stt_except_status(msg) == IF msg = "Could not understand audio" THEN 200 ELSE 500

\* POST /api/speech-to-text; `elapsed` is the time that passes between the
\* save of the upload and the call of prune_audio
speech_to_text_route(has_file, mime_ok, suffix_wav, outcome, text, elapsed, failing) ==
    LET base == Step("speech_to_text", 200)
        error == stt_error(suffix_wav, outcome)
        written == stt_files(suffix_wav, outcome)
        dir1 == stt_dir(suffix_wav, outcome)
        apath == IF written = {} THEN NoUrl ELSE static_url(uuid4)
        met == IF error = "" THEN "ok" ELSE outcome
    IN  IF ~stt_service
        THEN /\ last' = [base EXCEPT !.status = 503,
                                     !.error = "Whisper not configured"]
             /\ UNCHANGED <<frames, config, conversation_history, audio_state, now,
                            appended>>
        ELSE IF ~has_file \/ ~mime_ok
        THEN /\ last' = [base EXCEPT
                           !.status = 400,
                           !.error = IF ~has_file THEN "No audio file provided"
                                     ELSE "Unsupported audio type"]
             /\ UNCHANGED <<frames, config, conversation_history, audio_state, now,
                            appended>>
        ELSE /\ uuid_count + Cardinality(written) <= MaxFiles
             /\ uuid_count' = uuid_count + Cardinality(written)
             /\ IF prune_reached(error # "")
                THEN /\ now + elapsed <= MaxTime
                     /\ now' = now + elapsed
                     /\ audio_dir' =
                          prune_audio(dir1, now + elapsed,
                                      MAX_AUDIO_AGE_MINUTES, failing)
                     /\ last' = [base EXCEPT
                                   !.transcript = strip(text),
                                   !.audio_url = apath, !.stt = met,
                                   !.pruned = TRUE, !.failing = failing,
                                   !.removed = DOMAIN dir1 \ DOMAIN audio_dir']
                ELSE /\ audio_dir' = dir1
                     /\ now' = now
                     /\ last' =
                          IF stt_except_status(error) = 200
                          THEN [base EXCEPT !.audio_url = apath, !.stt = met,
                                            !.marker = "no_speech"]
                          ELSE [base EXCEPT !.status = 500, !.error = error,
                                            !.stt = met]
             /\ UNCHANGED <<frames, config, conversation_history, cache, appended,
                            returned, inserted>>

\* the outcomes of the two external calls of synthesize: the engine and,
\* when the engine succeeded, the unlink of an eviction
SynthEnv ==
    {[engine_ok |-> TRUE, unlink_ok |-> TRUE],
     [engine_ok |-> TRUE, unlink_ok |-> FALSE],
     [engine_ok |-> FALSE, unlink_ok |-> TRUE]}

\* what chat_completion does: raise, or return a text
LlmEnv ==
    {[ok |-> FALSE, text |-> <<>>]} \cup {[ok |-> TRUE, text |-> t] : t \in LlmTexts}

\* what the recognizer returns as the best transcript
Transcripts == {<<"a", " ">>}

NoFailure == [engine_ok |-> TRUE, unlink_ok |-> TRUE]

\* the requests a client can send and what they meet.  A failure is drawn
\* only where the call meets it: the engine's when the engine runs, the
\* unlink's when an entry is evicted.
MetEnv(text, voice) ==
    {env \in SynthEnv :
        LET r == synthesize(text, voice, env.engine_ok, env.unlink_ok)
        IN  /\ env.engine_ok \/ r.engine_raised
            /\ env.unlink_ok \/ r.unlink_raised}

ChatRequest ==
    \E m \in Messages, audio \in BOOLEAN, llm \in LlmEnv :
        \E env \in IF audio /\ llm.ok /\ tts_service
                    THEN MetEnv(strip(llm.text), <<>>) ELSE {NoFailure} :
            chat(m, audio, llm.ok, llm.text, env.engine_ok, env.unlink_ok)

\* the time a request can take between its write and its prune
Elapsed == {0, 1}

\* the files prune_audio removes from dir at the time utcnow when none fails
expired(dir, utcnow) ==
    {p \in DOMAIN dir : dir[p] < utcnow - MAX_AUDIO_AGE_MINUTES}

TextToSpeechRequest ==
    \/ \E t \in Texts, v \in Voices :
          /\ ~tts_service \/ strip(t) = <<>>
          /\ text_to_speech_route(t, v, TRUE, TRUE, 0, {})
    \/ \E t \in Texts, v \in Voices :
          /\ tts_service /\ strip(t) # <<>>
          /\ \E env \in MetEnv(strip(t), strip(v)) \ {NoFailure} :
                text_to_speech_route(t, v, env.engine_ok, env.unlink_ok, 0, {})
    \/ \E t \in Texts, v \in Voices, elapsed \in Elapsed :
          /\ tts_service /\ strip(t) # <<>>
          /\ now + elapsed <= MaxTime
          /\ \E failing \in SUBSET expired(synthesize(strip(t), strip(v), TRUE,
                                                     TRUE).audio_dir,
                                          now + elapsed) :
                text_to_speech_route(t, v, TRUE, TRUE, elapsed, failing)

SpeechToTextRequest ==
    \/ \E has_file \in BOOLEAN, mime_ok \in BOOLEAN :
          /\ ~(has_file /\ mime_ok)
          /\ speech_to_text_route(has_file, mime_ok, TRUE, "ok", <<>>, 0, {})
    \/ \E suffix_wav \in BOOLEAN, outcome \in SttOutcomes \ {"ok"} :
          /\ stt_error(suffix_wav, outcome) # ""
          /\ speech_to_text_route(TRUE, TRUE, suffix_wav, outcome, <<>>, 0, {})
    \/ \E suffix_wav \in BOOLEAN, text \in Transcripts, elapsed \in Elapsed :
          \E failing \in SUBSET expired(stt_dir(suffix_wav, "ok"),
                                         now + elapsed) :
             speech_to_text_route(TRUE, TRUE, suffix_wav, "ok", text, elapsed,
                                  failing)

(***************************************************************************)
(* The conversation: chat, read and reset requests one after another, in   *)
(* every configuration of the provider and of the synthesis service.       *)
(***************************************************************************)
InitChat ==
    /\ CONVERSATION_WINDOW \in {0, 1, 2}
    /\ MAX_AUDIO_AGE_MINUTES = 0
    /\ provider_configured \in BOOLEAN
    /\ stt_service = FALSE
    /\ tts_service \in BOOLEAN
    /\ cache_limit = 1
    /\ InitState

NextChat ==
    \/ get_conversation
    \/ reset_conversation
    \/ ChatRequest

SpecChat == InitChat /\ [][NextChat]_vars

\* the history after the turns u and a are appended to h, cut to the cap
WithExchange(h, u, a) ==
    LET all == h \o <<Turn("user", u), Turn("assistant", a)>>
    IN  LastN(all, Min(Len(all), Max(2 * CONVERSATION_WINDOW, 0)))

\* the list h ends with the user turn u followed by the assistant turn a
EndsWithExchange(h, u, a) ==
    /\ Len(h) >= 2
    /\ h[Len(h) - 1] = Turn("user", u)
    /\ h[Len(h)] = Turn("assistant", a)

(***************************************************************************)
(* C2.  A chat request whose completion raises is answered with status     *)
(* 500 and leaves the conversation history exactly as it was: no user      *)
(* turn, no assistant turn.                                                *)
(***************************************************************************)
C2_FailedCompletionKeepsHistory ==
    [][(last'.op = "chat" /\ last'.llm = "failed")
          => /\ last'.status = 500
             /\ conversation_history' = conversation_history]_vars

\* a completion failed after an exchange had been stored
C2_Witness ==
    /\ last.op = "chat"
    /\ last.llm = "failed"
    /\ last.status = 500
    /\ Len(conversation_history) >= 2

(***************************************************************************)
(* C3.  A chat request that succeeds (CONVERSATION_WINDOW >= 1) appends    *)
(* exactly two turns, the user turn and then the assistant reply, and the  *)
(* history of the response ends with these two turns in that order.        *)
(***************************************************************************)
C3_SuccessAppendsExchange ==
    [][(last'.op = "chat" /\ last'.status = 200 /\ CONVERSATION_WINDOW >= 1)
          => /\ conversation_history' =
                   WithExchange(conversation_history, last'.message, last'.reply)
             /\ EndsWithExchange(conversation_history', last'.message,
                                  last'.reply)
             /\ EndsWithExchange(last'.history, last'.message, last'.reply)]_vars

\* a successful chat on a full window: the oldest exchange was dropped
C3_Witness ==
    /\ last.op = "chat"
    /\ last.status = 200
    /\ CONVERSATION_WINDOW = 2
    /\ last.message = <<"b">>
    /\ last.reply = <<"a">>
    /\ Len(conversation_history) = 4
    /\ conversation_history[1] = Turn("user", <<"b">>)
    /\ conversation_history[2] = Turn("assistant", <<"b">>)

(***************************************************************************)
(* C4, as claimed.  A chat request whose message is empty or holds only    *)
(* whitespace is answered with status 400 in every configuration, the      *)
(* provider not called and the history untouched.                          *)
(***************************************************************************)
C4_EmptyMessageAlways400 ==
    [][(last'.op = "chat" /\ last'.message = <<>>)
          => /\ last'.status = 400
             /\ last'.llm = "none"
             /\ conversation_history' = conversation_history]_vars

(***************************************************************************)
(* C4, amended.  A chat request whose message is empty or holds only       *)
(* whitespace is answered with status 400 when a provider is configured    *)
(* and with status 503 when none is (that check comes first); either way   *)
(* the provider is not called and the history is untouched.                *)
(***************************************************************************)
C4_EmptyMessageRejected ==
    [][(last'.op = "chat" /\ last'.message = <<>>)
          => /\ last'.status = IF provider_configured THEN 400 ELSE 503
             /\ last'.llm = "none"
             /\ conversation_history' = conversation_history]_vars

\* an empty message was refused while the history held an exchange
C4_Witness ==
    /\ last.op = "chat"
    /\ last.message = <<>>
    /\ last.status = 400
    /\ Len(conversation_history) >= 2

(***************************************************************************)
(* C5.  In a chat request that asked for audio and whose completion        *)
(* succeeded, an exception of synthesize (from the engine or from the      *)
(* unlink of an eviction) does not fail the request: the status is 200,    *)
(* the reply is there, audio_url is null and the two turns are appended.   *)
(***************************************************************************)
C5_SynthesisFailureDegrades ==
    [][(last'.op = "chat" /\ last'.synth.called /\ last'.synth.raised)
          => /\ last'.status = 200
             /\ last'.llm = "ok"
             /\ last'.synth.key[1] = last'.reply
             /\ last'.audio_url = NoUrl
             /\ conversation_history' =
                   WithExchange(conversation_history, last'.message, last'.reply)
             /\ last'.history = recent_window(conversation_history')
             /\ CONVERSATION_WINDOW >= 1 =>
                   EndsWithExchange(last'.history, last'.message, last'.reply)]_vars

\* the unlink of an eviction raised inside a chat request
C5_Witness ==
    /\ last.op = "chat"
    /\ last.synth.called
    /\ last.synth.unlink_raised
    /\ last.synth.raised
    /\ last.status = 200
    /\ CONVERSATION_WINDOW >= 1

(***************************************************************************)
(* The audio side: synthesis, transcription and pruning requests one after *)
(* another while time passes, in every configuration of the cache limit,   *)
(* and the maximum age.  The conversation keeps no turn                    *)
(* (CONVERSATION_WINDOW = 0): chat is here for its calls of synthesize.    *)
(***************************************************************************)
InitAudio ==
    /\ CONVERSATION_WINDOW = 0
    /\ MAX_AUDIO_AGE_MINUTES \in {0, 1}
    /\ provider_configured = TRUE
    /\ stt_service = TRUE
    /\ tts_service = TRUE
    /\ cache_limit \in {1, 2}
    /\ InitState

NextAudio ==
    \/ Tick
    \/ ChatRequest
    \/ TextToSpeechRequest
    \/ SpeechToTextRequest

SpecAudio == InitAudio /\ [][NextAudio]_vars

\* the key evicted by the step, when there is one
Evicted == last'.synth.evicted[1]

(***************************************************************************)
(* C6.  After every call of synthesize (a hit, a miss, a failed synthesis, *)
(* a new synthesis for a key whose file was deleted) the cache holds at    *)
(* most cache_limit entries, each key once.                                *)
(***************************************************************************)
C6_CacheWithinLimit ==
    /\ Len(cache) <= cache_limit
    /\ Cardinality(cache_keys(cache)) = Len(cache)

\* a key whose file had been pruned was synthesized again, the cache full
C6_Witness ==
    /\ last.synth.called
    /\ last.synth.engine_called
    /\ ~last.synth.raised
    /\ inserted[last.synth.key] # 0
    /\ inserted[last.synth.key] # last.synth.path
    /\ Len(cache) = cache_limit
    /\ cache_limit = 2

(***************************************************************************)
(* C7, as claimed.  When synthesize inserts a key that takes the cache     *)
(* over cache_limit, the entry evicted is the key inserted earliest among  *)
(* those in the cache, and after the call that key is not in the cache     *)
(* and its file is not on disk.                                            *)
(***************************************************************************)
C7_EvictsOldestAndDeletesFile ==
    [][(/\ last'.synth.called
        /\ last'.synth.engine_called
        /\ ~last'.synth.engine_raised
        /\ last'.synth.key \notin cache_keys(cache)
        /\ Len(cache) = cache_limit)
          => /\ last'.synth.evicted # <<>>
             /\ Evicted \in cache_keys(cache)
             /\ \A k \in cache_keys(cache) : inserted[Evicted] <= inserted[k]
             /\ Evicted \notin cache_keys(cache')
             /\ ~exists(audio_dir', cache_get(cache, Evicted))]_vars

(***************************************************************************)
(* C7, amended.  When synthesize inserts a key that takes the cache over   *)
(* cache_limit, the entry evicted is the key inserted earliest among those *)
(* in the cache (a hit does not change the order), and after the call that *)
(* key is not in the cache; its file is not on disk unless the unlink      *)
(* raised, in which case the file stays.                                   *)
(***************************************************************************)
C7_EvictsOldest ==
    [][(/\ last'.synth.called
        /\ last'.synth.engine_called
        /\ ~last'.synth.engine_raised
        /\ last'.synth.key \notin cache_keys(cache)
        /\ Len(cache) = cache_limit)
          => /\ last'.synth.evicted # <<>>
             /\ Evicted \in cache_keys(cache)
             /\ \A k \in cache_keys(cache) : inserted[Evicted] <= inserted[k]
             /\ Evicted \notin cache_keys(cache')
             /\ ~last'.synth.unlink_raised =>
                   ~exists(audio_dir', cache_get(cache, Evicted))
             /\ last'.synth.unlink_raised =>
                   (exists(audio_dir', cache_get(cache, Evicted))
                      <=> exists(audio_dir, cache_get(cache, Evicted)))]_vars

\* an eviction from a cache of two: the entry that stays was inserted after
\* the one that left, and the file of the latter is gone
C7_Witness ==
    /\ last.synth.called
    /\ last.synth.evicted # <<>>
    /\ ~last.synth.unlink_raised
    /\ cache_limit = 2
    /\ Len(cache) = 2
    /\ uuid_count = 3
    /\ DOMAIN audio_dir = {2, 3}

(***************************************************************************)
(* C8, as claimed.  A call of synthesize that returns, for a key that an   *)
(* earlier call returned a path for and that was not evicted since,        *)
(* returns that same path and does not run the engine, whatever requests   *)
(* ran in between.                                                         *)
(***************************************************************************)
C8_SecondCallAlwaysHits ==
    [][(/\ last'.synth.called
        /\ ~last'.synth.raised
        /\ returned[last'.synth.key] # NoPath)
          => /\ last'.synth.path = returned[last'.synth.key]
             /\ ~last'.synth.engine_called]_vars

(***************************************************************************)
(* C8, amended.  A call of synthesize that returns, for a key that an      *)
(* earlier call returned a path for and that was not evicted since,        *)
(* returns that same path and does not run the engine, provided the file   *)
(* of that path is still on disk when the call is made; when prune_audio   *)
(* removed it in between, the call runs the engine and returns a new path. *)
(***************************************************************************)
C8_SecondCallHitsWhileFileExists ==
    [][(/\ last'.synth.called
        /\ ~last'.synth.raised
        /\ returned[last'.synth.key] # NoPath)
          => IF exists(audio_dir, returned[last'.synth.key])
             THEN /\ last'.synth.path = returned[last'.synth.key]
                  /\ ~last'.synth.engine_called
             ELSE /\ last'.synth.path # returned[last'.synth.key]
                  /\ last'.synth.engine_called]_vars

\* a hit after the clock moved and other files were written
C8_Witness ==
    /\ last.synth.called
    /\ last.synth.hit
    /\ last.synth.path = 1
    /\ returned[last.synth.key] = 1
    /\ uuid_count = 3
    /\ now = 1

(***************************************************************************)
(* C9.  When the unlink of an eviction raises, the entry is removed from   *)
(* the mapping all the same and the call of synthesize returns the path    *)
(* of the file it has just made: it does not raise.                        *)
(***************************************************************************)
C9_UnlinkFailureNotFatal ==
    [][(last'.synth.called /\ last'.synth.unlink_raised)
          => /\ Evicted \notin cache_keys(cache')
             /\ ~last'.synth.raised
             /\ last'.synth.path # NoPath]_vars

(***************************************************************************)
(* C10.  When the engine raises, synthesize raises (the text-to-speech     *)
(* route answers 500) and the cache is as it was before the call: no entry *)
(* added or replaced for the key, none evicted.                            *)
(***************************************************************************)
C10_EngineFailureLeavesCache ==
    [][(last'.synth.called /\ last'.synth.engine_raised)
          => /\ last'.synth.raised
             /\ last'.synth.path = NoPath
             /\ last'.synth.evicted = <<>>
             /\ cache' = cache
             /\ last'.op = "text_to_speech" => last'.status = 500]_vars

\* the engine raised for a key that has an entry whose file was pruned
C10_Witness ==
    /\ last.op = "text_to_speech"
    /\ last.synth.called
    /\ last.synth.engine_raised
    /\ last.synth.key \in cache_keys(cache)
    /\ ~exists(audio_dir, cache_get(cache, last.synth.key))

(***************************************************************************)
(* C11.  A call of synthesize for a key that has an entry in the cache     *)
(* while the file of that entry is no longer on disk is a miss: the engine *)
(* runs again and, when it does not raise, the entry of the key points to  *)
(* the new file, the call returns that file's path, and the file is on     *)
(* disk when the call returns.                                             *)
(***************************************************************************)
C11_DeletedFileIsMiss ==
    [][(/\ last'.synth.called
        /\ last'.synth.key \in cache_keys(cache)
        /\ ~exists(audio_dir, cache_get(cache, last'.synth.key)))
          => /\ ~last'.synth.hit
             /\ last'.synth.engine_called
             /\ ~last'.synth.engine_raised =>
                   /\ ~last'.synth.raised
                   /\ last'.synth.path = uuid_count'
                   /\ last'.synth.path # cache_get(cache, last'.synth.key)
                   /\ cache_get(cache', last'.synth.key) = last'.synth.path
                   /\ last'.synth.on_disk]_vars

\* the text-to-speech route synthesized again a key whose file a prune had
\* removed: the entry was replaced and the new file is there
C11_Witness ==
    /\ last.op = "text_to_speech"
    /\ last.status = 200
    /\ last.synth.engine_called
    /\ inserted[last.synth.key] # 0
    /\ inserted[last.synth.key] < last.synth.path
    /\ cache_get(cache, last.synth.key) = last.synth.path
    /\ exists(audio_dir, last.synth.path)
    /\ ~exists(audio_dir, inserted[last.synth.key])

(***************************************************************************)
(* C12.  A transcription request whose recognizer finds no speech is       *)
(* answered with status 200, an empty transcript and the marker no_speech, *)
(* with no error; every other failure of the try block (the upload not     *)
(* saved, ffmpeg missing, the conversion failed, the file unreadable, the  *)
(* recognition service failing) is answered with status 500 and an error.  *)
(***************************************************************************)
C12_NoSpeechIsNotAnError ==
    [][(last'.op = "speech_to_text" /\ last'.stt \notin {"none", "ok"})
          => IF last'.stt = "no_speech"
             THEN /\ last'.status = 200
                  /\ last'.transcript = <<>>
                  /\ last'.marker = "no_speech"
                  /\ last'.error = ""
             ELSE /\ last'.status = 500
                  /\ last'.error # ""
                  /\ last'.marker = ""]_vars

\* the recognizer found no speech in an upload that ffmpeg had converted
C12_Witness ==
    /\ last.op = "speech_to_text"
    /\ last.stt = "no_speech"
    /\ last.status = 200
    /\ last.marker = "no_speech"
    /\ Cardinality(DOMAIN audio_dir) = 2

(***************************************************************************)
(* prune_audio called on its own: on any directory of files written at or  *)
(* before the time of the call, with any maximum age from 0 to one that no *)
(* file reaches (MaxNow + 1 stands for an unbounded age), and with any     *)
(* files failing under stat or unlink.                                     *)
(***************************************************************************)
PruneAudioCall(failing) ==
    /\ audio_dir' = prune_audio(audio_dir, now, MAX_AUDIO_AGE_MINUTES, failing)
    /\ last' = [Step("prune_audio", 0) EXCEPT
                   !.pruned = TRUE, !.failing = failing,
                   !.removed = DOMAIN audio_dir \ DOMAIN audio_dir']
    /\ UNCHANGED <<frames, config, conversation_history, cache, uuid_count, now,
                   appended, returned, inserted>>

InitPrune ==
    /\ CONVERSATION_WINDOW = 0
    /\ MAX_AUDIO_AGE_MINUTES \in 0..(MaxNow + 1)
    /\ provider_configured = FALSE
    /\ stt_service = TRUE
    /\ tts_service = FALSE
    /\ cache_limit = 1
    /\ conversation_history = <<>>
    /\ cache = <<>>
    /\ now \in 0..MaxNow
    /\ \E names \in SUBSET (1..MaxFiles) : audio_dir \in [names -> 0..now]
    /\ uuid_count = MaxFiles
    /\ last = Step("import", 0)
    /\ appended = <<>>
    /\ returned = [k \in Keys |-> NoPath]
    /\ inserted = [k \in Keys |-> 0]
    /\ frames = [t \in Threads |-> IdleFrame]

NextPrune == \E failing \in SUBSET DOMAIN audio_dir : PruneAudioCall(failing)

SpecPrune == InitPrune /\ [][NextPrune]_vars

(***************************************************************************)
(* C13, as claimed.  prune_audio with maximum age 0 removes every file of  *)
(* the directory, one whose modification time is the time of the call      *)
(* included; with an unbounded maximum age it removes none; in general it  *)
(* removes exactly the files older than now minus the maximum age.  (No    *)
(* stat or unlink fails.)                                                  *)
(***************************************************************************)
C13_AgeZeroRemovesAll ==
    [][(last'.op = "prune_audio" /\ last'.failing = {})
          => /\ MAX_AUDIO_AGE_MINUTES = 0 => DOMAIN audio_dir' = {}
             /\ MAX_AUDIO_AGE_MINUTES > MaxNow => audio_dir' = audio_dir
             /\ \A p \in DOMAIN audio_dir :
                   p \in last'.removed
                      <=> audio_dir[p] < now - MAX_AUDIO_AGE_MINUTES]_vars

(***************************************************************************)
(* C13, amended.  prune_audio removes exactly the files whose modification *)
(* time is strictly older than now minus the maximum age and whose stat    *)
(* and unlink do not fail, and leaves the others as they are.  With        *)
(* maximum age 0 that is every file written before the time of the call:   *)
(* a file whose modification time is the time of the call stays.  With an  *)
(* unbounded maximum age no file is removed.                               *)
(***************************************************************************)
C13_RemovesStrictlyOlder ==
    [][last'.op = "prune_audio"
          => /\ \A p \in DOMAIN audio_dir :
                   /\ p \in last'.removed
                         <=> /\ audio_dir[p] < now - MAX_AUDIO_AGE_MINUTES
                             /\ p \notin last'.failing
                   /\ p \notin last'.removed =>
                         p \in DOMAIN audio_dir' /\ audio_dir'[p] = audio_dir[p]
             /\ DOMAIN audio_dir' \subseteq DOMAIN audio_dir
             /\ (MAX_AUDIO_AGE_MINUTES = 0 /\ last'.failing = {}) =>
                   \A p \in DOMAIN audio_dir :
                      p \in DOMAIN audio_dir' <=> audio_dir[p] = now
             /\ MAX_AUDIO_AGE_MINUTES > MaxNow => audio_dir' = audio_dir]_vars

\* a call with maximum age 0 removed the older files and left the one
\* written at the time of the call
C13_Witness ==
    /\ last.op = "prune_audio"
    /\ MAX_AUDIO_AGE_MINUTES = 0
    /\ last.failing = {}
    /\ Cardinality(last.removed) = 2
    /\ Cardinality(DOMAIN audio_dir) = 1
    /\ \A p \in DOMAIN audio_dir : audio_dir[p] = now

(***************************************************************************)
(* C14.  When the stat or the unlink of a file raises during prune_audio,  *)
(* the scan goes on and the caller sees nothing of it: every other file    *)
(* older than the cutoff is removed in the same call, the files that       *)
(* failed stay, and the request that called prune_audio answers 200 with   *)
(* its result.                                                             *)
(***************************************************************************)
C14_PruneFailureIsSkipped ==
    [][(last'.op \in {"text_to_speech", "speech_to_text"}
          /\ last'.pruned /\ last'.failing # {})
          => /\ last'.status = 200
             /\ last'.error = ""
             /\ last'.audio_url # NoUrl
             /\ last'.failing \subseteq DOMAIN audio_dir'
             /\ last'.removed \cap DOMAIN audio_dir' = {}
             /\ \A p \in DOMAIN audio_dir' :
                   audio_dir'[p] < now' - MAX_AUDIO_AGE_MINUTES
                      => p \in last'.failing]_vars

\* prune_audio failed on the first of three old files and removed the
\* other two, inside a text-to-speech request answered 200
C14_Witness ==
    /\ last.op = "text_to_speech"
    /\ last.status = 200
    /\ last.pruned
    /\ last.failing = {1}
    /\ last.removed = {2, 3}
    /\ DOMAIN audio_dir = {1}

(***************************************************************************)
(* C15, as claimed.  Every transcription request that saved an upload,     *)
(* every text-to-speech request that called synthesize and every chat      *)
(* request that called synthesize runs prune_audio before it answers,      *)
(* whether the transcription or the synthesis succeeded or failed.         *)
(***************************************************************************)
C15_PruneAfterEveryRequest ==
    [][(\/ last'.op = "speech_to_text"
              /\ last'.stt \notin {"none", "save_error"}
        \/ last'.op \in {"text_to_speech", "chat"} /\ last'.synth.called)
          => last'.pruned]_vars

(***************************************************************************)
(* C15, amended.  prune_audio runs, before the response, in exactly the    *)
(* transcription requests whose transcription returned and the             *)
(* text-to-speech requests whose call of synthesize returned.  It does not *)
(* run in a request whose transcription or synthesis raised (no speech     *)
(* found included), nor in any chat request: there the directory changes   *)
(* only by what the request itself wrote or evicted.                       *)
(***************************************************************************)
C15_PruneAfterSuccessOnly ==
    [][/\ last'.pruned <=>
             \/ last'.op = "speech_to_text" /\ last'.stt = "ok"
             \/ last'.op = "text_to_speech"
                   /\ last'.synth.called /\ ~last'.synth.raised
       /\ last'.pruned =>
             \A p \in DOMAIN audio_dir' :
                audio_dir'[p] < now' - MAX_AUDIO_AGE_MINUTES
                   => p \in last'.failing
       /\ ~last'.pruned =>
             /\ last'.removed = {}
             /\ \A p \in DOMAIN audio_dir :
                   p \in DOMAIN audio_dir'
                      \/ (last'.synth.evicted # <<>>
                            /\ p = cache_get(cache, last'.synth.evicted[1]))]_vars

\* a chat request synthesized its reply and answered while a file older
\* than the maximum age was left on disk
C15_Witness ==
    /\ last.op = "chat"
    /\ last.synth.engine_called
    /\ ~last.synth.raised
    /\ ~last.pruned
    /\ \E p \in DOMAIN audio_dir : audio_dir[p] < now - MAX_AUDIO_AGE_MINUTES

(***************************************************************************)
(* Chat requests served at the same time.  Nothing in app.py guards        *)
(* conversation_history: a thread can be preempted between any two         *)
(* operations on the list, so chat and append_history are taken operation  *)
(* by operation.  Reads and resets are one operation on the list each      *)
(* (a slice, list.clear) and run in one step.  The requests ask for no     *)
(* audio.                                                                  *)
(***************************************************************************)
\* what a step inside a handler leaves in `last`
ThreadStep == Step("thread", 0)

\* the number of requests the threads 1..n have begun
RECURSIVE Started(_)
Started(n) == IF n = 0 THEN 0 ELSE frames[n].started + Started(n - 1)

\* the frame of a thread whose request is answered
Answered(f) == [IdleFrame EXCEPT !.started = f.started, !.crossed = f.crossed]

\* the frame of a thread when its call of append_history returns: the
\* assistant turn follows the user turn, the response follows both
AfterAppend(f) ==
    IF f.role = "user"
    THEN [f EXCEPT !.pc = "append", !.role = "assistant"]
    ELSE [f EXCEPT !.pc = "respond"]

\* chat up to the call of the provider (app.py:345-359), with the list of
\* messages chat_completion builds before it calls out (265-271)
ChatBegin(t, payload_message) ==
    LET message == strip(payload_message)
        early == chat_validate(message)
    IN  /\ frames[t].pc = "idle"
        /\ Started(NThreads) < MaxRequests
        /\ IF early # 200
           THEN /\ frames' = [frames EXCEPT ![t].started = @ + 1,
                                            ![t].crossed = FALSE]
                /\ last' = [Step("chat", early) EXCEPT
                              !.message = message,
                              !.error = IF early = 503
                                        THEN "provider not configured"
                                        ELSE "Message is required"]
           ELSE /\ frames' =
                      [frames EXCEPT ![t] =
                          [IdleFrame EXCEPT
                              !.pc = "llm",
                              !.started = frames[t].started + 1,
                              !.message = message,
                              !.messages = chat_messages(conversation_history,
                                                         message)]]
                /\ last' = ThreadStep
        /\ UNCHANGED <<config, conversation_history, audio_state, now,
                       appended>>

\* chat_completion returns a reply or raises (app.py:273-303, 359-364); its
\* local list of messages is gone with it
LlmReturn(t, llm_ok, llm_text) ==
    LET f == frames[t]
    IN  /\ f.pc = "llm"
        /\ IF llm_ok
           THEN /\ frames' = [frames EXCEPT ![t] =
                                 [f EXCEPT !.pc = "append", !.role = "user",
                                           !.messages = <<>>,
                                           !.reply = strip(llm_text)]]
                /\ last' = ThreadStep
           ELSE /\ frames' = [frames EXCEPT ![t] = Answered(f)]
                /\ last' = [Step("chat", 500) EXCEPT
                              !.message = f.message, !.messages = f.messages,
                              !.llm = "failed", !.error = "request failed"]
        /\ UNCHANGED <<config, conversation_history, audio_state, now,
                       appended>>

\* conversation_history.append({...}) (app.py:251)
HistoryAppend(t) ==
    LET f == frames[t]
        turn == Turn(f.role, IF f.role = "user" THEN f.message ELSE f.reply)
    IN  /\ f.pc = "append"
        /\ conversation_history' = Append(conversation_history, turn)
        /\ appended' = Append(appended, turn)
        /\ frames' = [frames EXCEPT ![t].pc = "test"]
        /\ last' = ThreadStep
        /\ UNCHANGED <<config, audio_state, now>>

\* if len(conversation_history) > CONVERSATION_WINDOW * 2 (app.py:252)
HistoryTest(t) ==
    LET f == frames[t]
    IN  /\ f.pc = "test"
        /\ frames' = [frames EXCEPT ![t] =
                         IF Len(conversation_history) > CONVERSATION_WINDOW * 2
                         THEN [f EXCEPT !.pc = "bound"]
                         ELSE AfterAppend(f)]
        /\ last' = ThreadStep
        /\ UNCHANGED <<config, conversation_history, audio_state, now,
                       appended>>

\* len(conversation_history) - CONVERSATION_WINDOW * 2, the upper bound of
\* the slice to delete, is computed (app.py:253)
HistoryBound(t) ==
    /\ frames[t].pc = "bound"
    /\ frames' = [frames EXCEPT
                     ![t].pc = "del",
                     ![t].bound = Len(conversation_history)
                                    - CONVERSATION_WINDOW * 2]
    /\ last' = ThreadStep
    /\ UNCHANGED <<config, conversation_history, audio_state, now, appended>>

\* del conversation_history[0:bound] (app.py:253)
HistoryDel(t) ==
    LET f == frames[t]
    IN  /\ f.pc = "del"
        /\ conversation_history' = DelPrefix(conversation_history, f.bound)
        /\ frames' = [frames EXCEPT ![t] = AfterAppend([f EXCEPT !.bound = 0])]
        /\ last' = ThreadStep
        /\ UNCHANGED <<config, audio_state, now, appended>>

\* the response of chat (app.py:366-375)
ChatRespond(t) ==
    LET f == frames[t]
    IN  /\ f.pc = "respond"
        /\ frames' = [frames EXCEPT ![t] = Answered(f)]
        /\ last' = [Step("chat", 200) EXCEPT
                      !.message = f.message, !.llm = "ok", !.reply = f.reply,
                      !.history = recent_window(conversation_history)]
        /\ UNCHANGED <<config, conversation_history, audio_state, now,
                       appended>>

InitThreads ==
    /\ CONVERSATION_WINDOW = 1
    /\ MAX_AUDIO_AGE_MINUTES = 0
    /\ provider_configured = TRUE
    /\ stt_service = FALSE
    /\ tts_service = FALSE
    /\ cache_limit = 1
    /\ InitState

NextThreads ==
    \/ get_conversation
    \/ reset_conversation
    \/ \E t \in Threads :
          \/ \E m \in Messages : ChatBegin(t, m)
          \/ \E llm \in LlmEnv : LlmReturn(t, llm.ok, llm.text)
          \/ HistoryAppend(t)
          \/ HistoryTest(t)
          \/ HistoryBound(t)
          \/ HistoryDel(t)
          \/ ChatRespond(t)

SpecThreads == InitThreads /\ [][NextThreads]_vars

\* the list h is the end of the list a
IsSuffix(h, a) == Len(h) <= Len(a) /\ h = LastN(a, Len(h))

(***************************************************************************)
(* C16.  A reset leaves the history empty, and from then on the history    *)
(* holds only turns appended after the reset: a read returns the empty     *)
(* list as long as no chat request has appended since, and a chat request  *)
(* that was waiting for the provider when the reset happened appends its   *)
(* own two turns and brings back none of the turns that were there before. *)
(***************************************************************************)
C16_ResetIsNotUndone ==
    [][/\ IsSuffix(conversation_history', appended')
       /\ last'.op = "reset_conversation" => conversation_history' = <<>>
       /\ last'.op = "get_conversation" =>
             /\ IsSuffix(last'.history, appended)
             /\ appended = <<>> => last'.history = <<>>]_vars

\* a read after a request that was under way during a reset has finished:
\* it returns the two turns of that request and nothing older
C16_Witness ==
    /\ last.op = "get_conversation"
    /\ Len(appended) = 2
    /\ last.history = appended
    /\ Started(NThreads) = 2
    /\ \E t \in Threads : frames[t].crossed /\ frames[t].pc = "idle"
    /\ \A t \in Threads : frames[t].pc = "idle" /\ frames[t].started = 1

(***************************************************************************)
(* C17.  Whatever the interleaving of chat requests served at the same     *)
(* time, the history is updated as if the requests ran one after another:  *)
(* it holds at most 2 * CONVERSATION_WINDOW entries whenever no request is *)
(* inside append_history (as it would between serialized calls), and when  *)
(* a request (no reset in between) appends its assistant turn, the last    *)
(* turn of the history is the user turn of that same request.              *)
(***************************************************************************)
C17_ChatsAreSerialized ==
    [][/\ (\A t \in Threads : frames'[t].pc \notin {"test", "bound", "del"})
             => Len(conversation_history') <= 2 * CONVERSATION_WINDOW
       /\ \A t \in Threads :
             (/\ frames[t].pc = "append"
              /\ frames[t].role = "assistant"
              /\ ~frames[t].crossed
              /\ frames'[t].pc = "test")
                => /\ conversation_history # <<>>
                   /\ conversation_history[Len(conversation_history)]
                         = Turn("user", frames[t].message)]_vars

(***************************************************************************)
(* Calls of synthesize made at the same time, by requests served in        *)
(* different threads.  Nothing in TTSService guards the cache: synthesize  *)
(* and _evict_cache are taken operation by operation.                      *)
(***************************************************************************)
\* what the return of a call of synthesize leaves in `last`
SynthReturn(f, path, hit, raised) ==
    [Step("synthesize", 0) EXCEPT
        !.synth = [NoSynth EXCEPT !.called = TRUE, !.key = f.key, !.hit = hit,
                                  !.engine_called = ~hit, !.raised = raised,
                                  !.path = path,
                                  !.on_disk = exists(audio_dir', path)]]

\* key = (text, voice or self.default_voice); cached = self.cache.get(key)
\* (app.py:196-197)
SynthBegin(t, text, voice) ==
    LET key == <<text, IF voice = <<>> THEN TTS_VOICE ELSE voice>>
    IN  /\ frames[t].pc = "idle"
        /\ Started(NThreads) < MaxRequests
        /\ frames' = [frames EXCEPT ![t] =
                         [IdleFrame EXCEPT !.pc = "exists",
                                           !.started = frames[t].started + 1,
                                           !.key = key,
                                           !.cached = cache_get(cache, key)]]
        /\ last' = ThreadStep
        /\ UNCHANGED <<config, conversation_history, audio_state, now,
                       appended>>

\* if cached and cached.exists(): return cached; else a new file name is
\* drawn (app.py:198-201)
SynthExists(t) ==
    LET f == frames[t]
    IN  /\ f.pc = "exists"
        /\ IF cache_hit(f.cached)
           THEN /\ frames' = [frames EXCEPT ![t] = Answered(f)]
                /\ uuid_count' = uuid_count
                /\ audio_dir' = audio_dir
                /\ last' = SynthReturn(f, f.cached, TRUE, FALSE)
           ELSE /\ uuid_count < MaxFiles
                /\ uuid_count' = uuid_count + 1
                /\ audio_dir' = audio_dir
                /\ frames' = [frames EXCEPT ![t].pc = "engine",
                                            ![t].audio_path = uuid4]
                /\ last' = ThreadStep
        /\ UNCHANGED <<config, conversation_history, cache, now, appended,
                       returned, inserted>>

\* engine.save_to_file; engine.runAndWait (app.py:202-206)
SynthEngine(t, engine_ok) ==
    LET f == frames[t]
    IN  /\ f.pc = "engine"
        /\ IF engine_ok
           THEN /\ audio_dir' = write_file(audio_dir, f.audio_path)
                /\ frames' = [frames EXCEPT ![t].pc = "store"]
                /\ last' = ThreadStep
           ELSE /\ audio_dir' = audio_dir
                /\ frames' = [frames EXCEPT ![t] = Answered(f)]
                /\ last' = SynthReturn(f, NoPath, FALSE, TRUE)
        /\ UNCHANGED <<config, conversation_history, cache, uuid_count, now,
                       appended, returned, inserted>>

\* self.cache[key] = audio_path (app.py:208)
SynthStore(t) ==
    LET f == frames[t]
    IN  /\ f.pc = "store"
        /\ cache' = cache_set(cache, f.key, f.audio_path)
        /\ frames' = [frames EXCEPT ![t].pc = "evict_test"]
        /\ last' = ThreadStep
        /\ UNCHANGED <<config, conversation_history, audio_dir, uuid_count,
                       now, appended, returned, inserted>>

\* if len(self.cache) <= self.cache_limit: return (app.py:213-214), and
\* then synthesize returns audio_path (210)
EvictTest(t) ==
    LET f == frames[t]
    IN  /\ f.pc = "evict_test"
        /\ audio_dir' = audio_dir
        /\ IF Len(cache) <= cache_limit
           THEN /\ frames' = [frames EXCEPT ![t] = Answered(f)]
                /\ last' = SynthReturn(f, f.audio_path, FALSE, FALSE)
           ELSE /\ frames' = [frames EXCEPT ![t].pc = "evict_oldest"]
                /\ last' = ThreadStep
        /\ UNCHANGED <<config, conversation_history, cache, uuid_count, now,
                       appended, returned, inserted>>

\* oldest_key = next(iter(self.cache)) (app.py:215); on a dict that other
\* threads have emptied next raises StopIteration
EvictOldest(t) ==
    LET f == frames[t]
    IN  /\ f.pc = "evict_oldest"
        /\ audio_dir' = audio_dir
        /\ IF cache = <<>>
           THEN /\ frames' = [frames EXCEPT ![t] = Answered(f)]
                /\ last' = SynthReturn(f, NoPath, FALSE, TRUE)
           ELSE /\ frames' = [frames EXCEPT ![t].pc = "evict_unlink",
                                            ![t].oldest_key = cache[1].key]
                /\ last' = ThreadStep
        /\ UNCHANGED <<config, conversation_history, cache, uuid_count, now,
                       appended, returned, inserted>>

\* self.cache[oldest_key].unlink(missing_ok=True) (app.py:216-217): the
\* subscript raises KeyError when another thread has popped the key, the
\* unlink can raise; either way the finally runs next
EvictUnlink(t, unlink_ok) ==
    LET f == frames[t]
        path == cache_get(cache, f.oldest_key)
    IN  /\ f.pc = "evict_unlink"
        /\ IF path # NoPath /\ unlink_ok
           THEN /\ audio_dir' = remove_files(audio_dir, {path})
                /\ frames' = [frames EXCEPT ![t].pc = "evict_pop"]
           ELSE /\ audio_dir' = audio_dir
                /\ frames' = [frames EXCEPT ![t].pc = "evict_pop",
                                            ![t].raising = TRUE]
        /\ last' = ThreadStep
        /\ UNCHANGED <<config, conversation_history, cache, uuid_count, now,
                       appended, returned, inserted>>

\* finally: self.cache.pop(oldest_key, None) (app.py:218-219), and then
\* synthesize returns audio_path (210) or the exception goes on
EvictPop(t) ==
    LET f == frames[t]
    IN  /\ f.pc = "evict_pop"
        /\ cache' = cache_pop(cache, f.oldest_key)
        /\ audio_dir' = audio_dir
        /\ frames' = [frames EXCEPT ![t] = Answered(f)]
        /\ last' = SynthReturn(f, IF f.raising THEN NoPath ELSE f.audio_path,
                               FALSE, f.raising)
        /\ UNCHANGED <<config, conversation_history, uuid_count, now, appended,
                       returned, inserted>>

InitSynthThreads ==
    /\ CONVERSATION_WINDOW = 0
    /\ MAX_AUDIO_AGE_MINUTES = 1
    /\ provider_configured = TRUE
    /\ stt_service = FALSE
    /\ tts_service = TRUE
    /\ cache_limit = 1
    /\ InitState

NextSynthThreads ==
    \E t \in Threads :
       \/ \E text \in {strip(x) : x \in Texts} \ {<<>>},
             voice \in {strip(x) : x \in Voices} :
             SynthBegin(t, text, voice)
       \/ SynthExists(t)
       \/ \E engine_ok \in BOOLEAN : SynthEngine(t, engine_ok)
       \/ SynthStore(t)
       \/ EvictTest(t)
       \/ EvictOldest(t)
       \/ \E unlink_ok \in BOOLEAN : EvictUnlink(t, unlink_ok)
       \/ EvictPop(t)

SpecSynthThreads == InitSynthThreads /\ [][NextSynthThreads]_vars

(***************************************************************************)
(* C18.  Whatever the interleaving of calls of synthesize made at the same *)
(* time: no two calls for the same key are both past a miss with their     *)
(* entry not yet stored (both synthesizing); and once every call has       *)
(* returned, every file a call wrote that is still on disk is the file of  *)
(* a cache entry, and the cache holds at most cache_limit entries.         *)
(***************************************************************************)
C18_SynthesizeAtomicPerKey ==
    /\ \A t1, t2 \in Threads :
          (/\ t1 # t2
           /\ frames[t1].pc \in {"engine", "store"}
           /\ frames[t2].pc \in {"engine", "store"})
             => frames[t1].key # frames[t2].key
    /\ (\A t \in Threads : frames[t].pc = "idle")
          => /\ \A p \in DOMAIN audio_dir : \E i \in DOMAIN cache : cache[i].path = p
             /\ Len(cache) <= cache_limit

\* the number of places of the list s that hold x
Count(s, x) == Cardinality({i \in DOMAIN s : s[i] = x})

(***************************************************************************)
(* C19.  The list of messages a chat request builds for the provider is    *)
(* the system instruction, then the window of the history as it stood      *)
(* before the request appended anything (the last 2 * CONVERSATION_WINDOW  *)
(* turns at most, in order), then the new user turn, last.  The history    *)
(* does not hold the new turn yet when the list is built, so the list      *)
(* holds it exactly once more than the window does.                        *)
(***************************************************************************)
C19_PromptIsWindowThenUserTurn ==
    [][(last'.op = "chat" /\ last'.llm # "none")
          => LET msgs == last'.messages
                 before == conversation_history
                 window == LastN(before, Min(Len(before),
                                             2 * CONVERSATION_WINDOW))
                 mine == Turn("user", last'.message)
             IN  /\ Len(msgs) = Len(window) + 2
                 /\ msgs[1] = Turn("system", SystemInstruction)
                 /\ \A i \in DOMAIN window : msgs[i + 1] = window[i]
                 /\ msgs[Len(msgs)] = mine
                 /\ Count(msgs, mine) = Count(window, mine) + 1
                 /\ \A i \in DOMAIN window : window[i].role # "system"]_vars

\* a request on a full window of two exchanges: six messages were sent and
\* the history then dropped its oldest exchange
C19_Witness ==
    /\ last.op = "chat"
    /\ last.llm = "ok"
    /\ CONVERSATION_WINDOW = 2
    /\ Len(last.messages) = 6
    /\ last.messages[2].role = "user"
    /\ last.messages[6] = Turn("user", last.message)
    /\ last.messages[5] = conversation_history[2]

(***************************************************************************)
(* C20.  Whenever the text-to-speech route answers with status 200 and an  *)
(* audio_url, the file the audio_url names is on disk when the response is *)
(* returned, for a cache hit as for a miss: the prune_audio the route      *)
(* calls after synthesize leaves the returned file alone.                  *)
(***************************************************************************)
C20_ReturnedAudioExists ==
    [][(/\ last'.op = "text_to_speech"
        /\ last'.status = 200
        /\ last'.audio_url # NoUrl)
          => /\ last'.audio_url = static_url(last'.synth.path)
             /\ exists(audio_dir', last'.synth.path)]_vars

\* the role of the i-th stored turn of a history of whole exchanges
RoleAt(i) == IF i % 2 = 1 THEN "user" ELSE "assistant"

\* h is a sequence of whole exchanges: a user turn, then its assistant turn
WholeExchanges(h) ==
    /\ Len(h) % 2 = 0
    /\ \A i \in DOMAIN h : h[i].role = RoleAt(i)

(***************************************************************************)
(* C21.  When chat requests and resets run one after another and the       *)
(* window is at least 1, the history between requests has even length,     *)
(* starts with a user turn and alternates user, assistant; no turn of      *)
(* another role (system) is stored; and a request that reaches the cap     *)
(* drops turns from the front in whole exchanges, so that no assistant     *)
(* turn is left without the user turn that precedes it.                    *)
(***************************************************************************)
C21_HistoryIsWholeExchanges ==
    /\ [](CONVERSATION_WINDOW >= 1 =>
            /\ WholeExchanges(conversation_history)
            /\ \A i \in DOMAIN conversation_history :
                   conversation_history[i].role \in Roles
            /\ Len(conversation_history) <= 2 * CONVERSATION_WINDOW)
    /\ [][(CONVERSATION_WINDOW >= 1 /\ last'.op = "chat"
                                     /\ last'.llm = "ok")
            => LET all == conversation_history
                            \o <<Turn("user", last'.message),
                                 Turn("assistant", last'.reply)>>
                   dropped == Len(all) - Len(conversation_history')
               IN  /\ dropped \in {0, 2}
                   /\ conversation_history' = DelPrefix(all, dropped)]_vars

\* a chat on a full history of one exchange: the old exchange was dropped
\* whole and the new one is what is stored
C21_Witness ==
    /\ last.op = "chat"
    /\ last.llm = "ok"
    /\ CONVERSATION_WINDOW = 1
    /\ Len(last.messages) = 4
    /\ conversation_history = <<Turn("user", last.message),
                                Turn("assistant", last.reply)>>

=============================================================================
